---- MODULE Spec2Model ----
(***************************************************************************)
(* A model of backups_reporter.py: main(), BackupsReporter.run(), the      *)
(* Borg and S3 listings, WebhookNotifier.ping and                          *)
(* BorgRepository._calculate_directory_size.                               *)
(*                                                                         *)
(* The outside world (the borg binary, the file system, S3, SMTP, the      *)
(* webhook endpoints, the YAML file) is the environment: every call into   *)
(* it takes one of its possible outcomes, chosen with \E in the action     *)
(* that makes the call.                                                    *)
(*                                                                         *)
(* A BackupEntry is modelled by its source, name and timestamp; its size   *)
(* and type are read by the HTML rendering only. The variables marked      *)
(* "history" record what the program did and are read by the properties    *)
(* alone.                                                                  *)
(***************************************************************************)
EXTENDS Integers, Sequences, FiniteSets, TLC

\* ---------------------------------------------------------------- bounds
\* archive directories and objects the backends hold, all together, at most
MaxItems == 3
\* timestamps are 1..MaxTime (a larger number is a later time)
MaxTime == 2
\* entries_per_source ranges over -1..MaxLimit
MaxLimit == 1
\* max_total_entries ranges over -1..MaxTotal
MaxTotal == 2
\* files under one archive directory, at most
MaxFiles == 3
\* file sizes are 0..MaxSize
MaxSize == 2

\* ----------------------------------------------- the configuration used
\* config['borg_repositories'], config['s3_buckets'] and config['webhooks']
\* (when present), by position.
BorgRepositories == {1, 2}
S3Buckets == {1}
Webhooks == <<1, 2>>

NumRepos == Cardinality(BorgRepositories)
NumBuckets == Cardinality(S3Buckets)

Borg(r) == [kind |-> "borg", idx |-> r]
S3(b) == [kind |-> "s3", idx |-> b]
Sources == {Borg(r) : r \in BorgRepositories} \cup {S3(b) : b \in S3Buckets}

\* What a backend holds: the timestamps of its items, in the order the
\* backend enumerates them (iterdir order, page order).
Listings == UNION {[1..n -> 1..MaxTime] : n \in 0..MaxItems}
ListingsWithin(n) == {raw \in Listings : Len(raw) <= n}

Min(a, b) == IF a < b THEN a ELSE b
Max(a, b) == IF a > b THEN a ELSE b

VARIABLES
  pc,               \* where main()/run() stands
  webhook_notifier, \* self.webhook_notifier is not None
  config,           \* self.config: what the file says about 'webhooks'
  limit_per_source, \* run(): limit_per_source
  max_entries,      \* run(): max_entries
  entries,          \* run(): entries
  borg_repos,       \* run(): borg_repos, the repositories whose mount() returned True
  idx,              \* position of the running for loop
  mount_point,      \* repo.mount_point is set, per repository
  calls,            \* history: the calls made on each backend, in order
  last_listing,     \* history: what the latest listing call found and returned
  merged,           \* history: how many entries the global sort was given
  pings,            \* history: the ping() calls made, in order
  report,           \* history: the entries send_report was called with
  exc,              \* the exception travelling up, "none" when there is none
  exit_code,        \* the process exit status, -1 while running
  scan              \* _calculate_directory_size's frame

vars == <<pc, config, webhook_notifier, limit_per_source, max_entries, entries, borg_repos, idx,
          mount_point, calls, last_listing, merged, pings, report, exc,
          exit_code, scan>>

\* ------------------------------------------------------- pure functions

\* Faulty variant of PySlice: the cut keeps one element too many.
PySliceOffByOne(s, n) ==
  LET k == IF n >= 0 THEN Min(n + 1, Len(s)) ELSE Max(Len(s) + n + 1, 0)
  IN SubSeq(s, 1, k)

\* Python's seq[:n]: the first n elements, and for a negative n all but the
\* last -n.
PySlice(s, n) ==
  LET k == IF n >= 0 THEN Min(n, Len(s)) ELSE Max(Len(s) + n, 0)
  IN SubSeq(s, 1, k)

\* Faulty variant of InsertDesc: an unstable sort, e overtakes its equals.
InsertUnstable(sorted, e) ==
  LET p == Cardinality({k \in 1..Len(sorted) : sorted[k].timestamp > e.timestamp})
  IN SubSeq(sorted, 1, p) \o <<e>> \o SubSeq(sorted, p + 1, Len(sorted))

\* One step of list.sort(key=timestamp, reverse=True): e goes behind every
\* element whose timestamp is not smaller, so equal keys keep their order.
InsertDesc(sorted, e) ==
  LET p == Cardinality({k \in 1..Len(sorted) : sorted[k].timestamp >= e.timestamp})
  IN SubSeq(sorted, 1, p) \o <<e>> \o SubSeq(sorted, p + 1, Len(sorted))

RECURSIVE SortDesc(_)
SortDesc(s) ==
  IF s = <<>> THEN <<>>
  ELSE InsertDesc(SortDesc(SubSeq(s, 1, Len(s) - 1)), s[Len(s)])

\* The BackupEntry objects built from the items seen, in the order seen.
BuildEntries(src, raw) ==
  [k \in 1..Len(raw) |-> [source |-> src, name |-> k, timestamp |-> raw[k]]]

\* Faulty variant of ListArchives: on an exception it returns the entries
\* collected so far instead of none.
ListArchivesPartial(r, mp, raw, limit, failAt) ==
  IF ~mp THEN <<>>
  ELSE IF failAt # 0
  THEN PySlice(SortDesc(BuildEntries(Borg(r), SubSeq(raw, 1, failAt - 1))), limit)
  ELSE PySlice(SortDesc(BuildEntries(Borg(r), raw)), limit)

\* BorgRepository.list_archives(limit). raw: the archive directories under
\* the mount point; failAt = k > 0: handling the k-th of them raises
\* (iterdir, is_dir or stat), failAt = 0: nothing raises.
ListArchives(r, mp, raw, limit, failAt) ==
  IF ~mp THEN <<>>
  ELSE IF failAt # 0 THEN <<>>
  ELSE PySlice(SortDesc(BuildEntries(Borg(r), raw)), limit)

\* Faulty variant of ListObjects: the cut is made before the sort, so the
\* first limit objects listed are kept, not the latest.
ListObjectsCutFirst(b, raw, limit, failAt) ==
  IF failAt # 0 THEN <<>>
  ELSE SortDesc(PySlice(BuildEntries(S3(b), raw), limit))

\* S3Bucket.list_objects(limit). raw: the objects of all pages; failAt as
\* above (ClientError or any other exception while paging).
ListObjects(b, raw, limit, failAt) ==
  IF failAt # 0 THEN <<>>
  ELSE PySlice(SortDesc(BuildEntries(S3(b), raw)), limit)

\* Faulty variant of Mount: a timeout is not reported as a failure.
MountIgnoresTimeout(outcome) ==
  [ret |-> outcome \in {"ok", "timeout"}, mount_point |-> outcome # "error"]

\* BorgRepository.mount(): what it returns and whether mount_point is set.
\* "error" is mkdtemp failing, before mount_point is assigned.
MountOutcomes == {"ok", "nonzero", "timeout", "error"}
Mount(outcome) ==
  [ret |-> outcome = "ok", mount_point |-> outcome # "error"]

\* What one POST to a webhook does. Every failure is a
\* requests.RequestException (raise_for_status included).
PostOutcomes == {"ok", "http_error", "connection_error"}

\* The first webhook whose POST fails, 0 when none does.
FirstFailure(outcomes) ==
  LET bad == {j \in 1..Len(outcomes) : outcomes[j] # "ok"}
  IN IF bad = {} THEN 0 ELSE CHOOSE j \in bad : \A k \in bad : j <= k

\* Faulty variant of Ping: the first failing POST is not caught; it ends the
\* loop and leaves ping as an exception.
PingStopAtFailure(status, outcomes) ==
  LET f == FirstFailure(outcomes) IN
  [status |-> status,
   urls |-> [k \in 1..(IF f = 0 THEN Len(outcomes) ELSE f) |-> Webhooks[k]],
   first_failure |-> f,
   raised |-> f # 0]

\* WebhookNotifier.ping(status). outcomes[k] is what the POST to the k-th
\* webhook does; the loop body catches and logs requests.RequestException
\* and goes on with the next webhook. urls: the webhooks a POST was made to,
\* in order; raised: an exception leaves ping.
Ping(status, outcomes) ==
  [status |-> status,
   urls |-> [k \in 1..Len(outcomes) |-> Webhooks[k]],
   first_failure |-> FirstFailure(outcomes),
   raised |-> FALSE]

\* What the history keeps of one ping call.
PingCall(p) ==
  [status |-> p.status, urls |-> p.urls, first_failure |-> p.first_failure]

\* How a file met during the walk answers os.path.getsize: its size, or an
\* OSError (PermissionError, FileNotFoundError).
FileAccess == {"ok", "permission_denied", "deleted"}

\* Faulty variant of ScanStep: only PermissionError is caught per file; a
\* file deleted during the walk ends the walk in the outer handler.
ScanStepAbort(fr, f) ==
  IF f.access = "ok"
  THEN [fr EXCEPT !.total_size = @ + f.size, !.file_count = @ + 1, !.pos = @ + 1]
  ELSE IF f.access = "deleted"
  THEN [fr EXCEPT !.pos = Len(fr.files) + 1]
  ELSE [fr EXCEPT !.pos = @ + 1]

\* _calculate_directory_size, one pass of the inner loop: the file's size
\* is added and the file counted, or the file is skipped on OSError.
ScanStep(fr, f) ==
  IF f.access = "ok"
  THEN [fr EXCEPT !.total_size = @ + f.size, !.file_count = @ + 1, !.pos = @ + 1]
  ELSE [fr EXCEPT !.pos = @ + 1]

\* ------------------------------------------------------------ the state

\* The keys of the file that run() reads once each take their value where
\* run() reads them: entries_per_source, max_total_entries and 'email'.
Configs == [webhooks : BOOLEAN]
EntriesPerSource == (-1)..MaxLimit
MaxTotalEntries == (-1)..MaxTotal

NoListing == [source |-> Borg(0), raw |-> <<>>, failed |-> FALSE, seen |-> 0]
NoReport == [called |-> FALSE, entries |-> <<>>, delivered |-> FALSE]
NoScan == [pc |-> "idle", files |-> <<>>, pos |-> 0, total_size |-> 0,
           file_count |-> 0]

\* The files os.walk yields under one archive directory, in walk order.
Files == [size : 0..MaxSize, access : FileAccess]
FileLists == UNION {[1..n -> Files] : n \in 0..MaxFiles}

\* main() is about to construct the BackupsReporter from the config file.
Init ==
  /\ pc = "main"
  /\ config \in Configs
  /\ webhook_notifier = FALSE
  /\ limit_per_source = 0
  /\ max_entries = 0
  /\ entries = <<>>
  /\ borg_repos = <<>>
  /\ idx = 0
  /\ mount_point = [r \in BorgRepositories |-> FALSE]
  /\ calls = [s \in Sources |-> <<>>]
  /\ last_listing = NoListing
  /\ merged = 0
  /\ pings = <<>>
  /\ report = NoReport
  /\ exc = "none"
  /\ exit_code = -1
  /\ scan = NoScan

\* ---------------------------------------------------------- the actions

\* main(): the config file does not exist; print and sys.exit(1).
ConfigMissing ==
  /\ pc = "main"
  /\ pc' = "exit"
  /\ exit_code' = 1
  /\ UNCHANGED <<config, limit_per_source, max_entries, webhook_notifier,
                 entries, borg_repos, idx, mount_point, calls, last_listing,
                 merged, pings, report, exc, scan>>

\* BackupsReporter.__init__: open and parse the file, set up logging, and
\* only then build the notifier. Any failure before that leaves main()
\* with an exception and no notifier.
LoadOutcomes == {"ok", "unreadable", "malformed_yaml", "bad_log_level"}
Construct ==
  /\ pc = "main"
  /\ \E load \in LoadOutcomes :
       IF load = "ok"
       THEN /\ webhook_notifier' = config.webhooks
            /\ pc' = "run"
            /\ exc' = exc
       ELSE /\ webhook_notifier' = webhook_notifier
            /\ pc' = "raised"
            /\ exc' = load
  /\ UNCHANGED <<config, limit_per_source, max_entries, entries, borg_repos,
                 idx, mount_point, calls, last_listing, merged, pings, report,
                 exit_code, scan>>

\* What the configured endpoints do with one ping call.
PostResults == [1..Len(Webhooks) -> PostOutcomes]

\* run(): the start ping, made outside the try block, then the locals.
RunStart ==
  /\ pc = "run"
  /\ IF webhook_notifier
     THEN \E outcomes \in PostResults :
            LET p == Ping("start", outcomes) IN
            /\ pings' = Append(pings, PingCall(p))
            /\ IF p.raised
               THEN /\ pc' = "raised"
                    /\ exc' = "request_exception"
               ELSE /\ pc' = "borg"
                    /\ exc' = exc
     ELSE /\ pings' = pings
          /\ pc' = "borg"
          /\ exc' = exc
  /\ entries' = <<>>
  /\ limit_per_source' \in EntriesPerSource
  /\ borg_repos' = <<>>
  /\ idx' = 1
  /\ UNCHANGED <<config, max_entries, webhook_notifier, mount_point, calls,
                 last_listing, merged, report, exit_code, scan>>

\* Where the Borg loop goes after repository number i.
AfterRepo(i) == IF i < NumRepos THEN "borg" ELSE "s3"
AfterRepoIdx(i) == IF i < NumRepos THEN i + 1 ELSE 1

\* run(): repo = BorgRepository(repo_config); if repo.mount(): append it.
MountRepo ==
  /\ pc = "borg"
  /\ \E outcome \in MountOutcomes :
       LET m == Mount(outcome) IN
       /\ mount_point' = [mount_point EXCEPT ![idx] = m.mount_point]
       /\ calls' = [calls EXCEPT ![Borg(idx)] =
                      Append(@, IF outcome = "ok" THEN "mount_ok" ELSE "mount_fail")]
       /\ IF m.ret
          THEN /\ borg_repos' = Append(borg_repos, idx)
               /\ pc' = "list"
               /\ idx' = idx
          ELSE /\ borg_repos' = borg_repos
               /\ pc' = AfterRepo(idx)
               /\ idx' = AfterRepoIdx(idx)
  /\ UNCHANGED <<config, limit_per_source, max_entries, webhook_notifier,
                 entries, last_listing, merged, pings, report, exc, exit_code,
                 scan>>

\* run(): entries.extend(repo.list_archives(limit_per_source)).
ListRepo ==
  /\ pc = "list"
  /\ \E raw \in ListingsWithin(MaxItems - last_listing.seen) :
     \E failAt \in 0..Len(raw) :
       LET ret == ListArchives(idx, mount_point[idx], raw,
                               limit_per_source, failAt) IN
       /\ entries' = entries \o ret
       /\ calls' = [calls EXCEPT ![Borg(idx)] =
                      Append(@, IF failAt = 0 THEN "list_ok" ELSE "list_fail")]
       /\ last_listing' = [source |-> Borg(idx),
                           raw |-> IF failAt = 0 THEN raw ELSE <<>>,
                           failed |-> failAt # 0,
                           seen |-> last_listing.seen + Len(raw)]
  /\ pc' = AfterRepo(idx)
  /\ idx' = AfterRepoIdx(idx)
  /\ UNCHANGED <<config, limit_per_source, max_entries, webhook_notifier,
                 borg_repos, mount_point, pings, report, exc, exit_code, scan,
                 merged>>

\* run(): entries.extend(bucket.list_objects(limit_per_source)).
ListBucket ==
  /\ pc = "s3"
  /\ \E raw \in ListingsWithin(MaxItems - last_listing.seen) :
     \E failAt \in 0..Len(raw) :
       LET ret == ListObjects(idx, raw, limit_per_source, failAt) IN
       /\ entries' = entries \o ret
       /\ calls' = [calls EXCEPT ![S3(idx)] =
                      Append(@, IF failAt = 0 THEN "list_ok" ELSE "list_fail")]
       /\ last_listing' = [source |-> S3(idx),
                           raw |-> IF failAt = 0 THEN raw ELSE <<>>,
                           failed |-> failAt # 0,
                           seen |-> last_listing.seen + Len(raw)]
  /\ pc' = IF idx < NumBuckets THEN "s3" ELSE "sort"
  /\ idx' = IF idx < NumBuckets THEN idx + 1 ELSE 1
  /\ UNCHANGED <<config, limit_per_source, max_entries, webhook_notifier,
                 borg_repos, mount_point, pings, report, exc, exit_code, scan,
                 merged>>

\* run(): the global sort and the max_total_entries cut. The listing phase
\* is over, and its history is no longer kept.
SortTruncate ==
  /\ pc = "sort"
  /\ max_entries' \in MaxTotalEntries
  /\ entries' = PySlice(SortDesc(entries), max_entries')
  /\ pc' = "send"
  /\ last_listing' = NoListing
  /\ merged' = Len(entries)
  /\ UNCHANGED <<config, limit_per_source, webhook_notifier, borg_repos, idx,
                 mount_point, calls, pings, report, exc, exit_code, scan>>

\* What EmailReporter.send_report does: rendering or SMTP may raise.
SendOutcomes == {"ok", "render_error", "smtp_error"}

\* Faulty variant of SendReport: send_report logs an error without
\* re-raising it.
SendReportSwallow ==
  /\ pc = "send"
  /\ \E email \in BOOLEAN :
       IF email
       THEN \E outcome \in SendOutcomes :
              report' = [called |-> TRUE, entries |-> entries,
                         delivered |-> (outcome = "ok")]
       ELSE report' = report
  /\ exc' = exc
  /\ pc' = "cleanup"
  /\ idx' = 1
  /\ UNCHANGED <<config, limit_per_source, max_entries, webhook_notifier,
                 entries, borg_repos, mount_point, calls, last_listing,
                 merged, pings, exit_code, scan>>

\* run(): if 'email' in config, send_report(entries); it logs and re-raises
\* whatever rendering or SMTP raises.
SendReport ==
  /\ pc = "send"
  /\ \E email \in BOOLEAN :
       IF email
       THEN \E outcome \in SendOutcomes :
              /\ report' = [called |-> TRUE, entries |-> entries,
                            delivered |-> (outcome = "ok")]
              /\ exc' = IF outcome = "ok" THEN exc ELSE outcome
              /\ pc' = IF outcome = "ok" THEN "cleanup" ELSE "except"
       ELSE /\ report' = report
            /\ exc' = exc
            /\ pc' = "cleanup"
  /\ idx' = 1
  /\ UNCHANGED <<config, limit_per_source, max_entries, webhook_notifier,
                 entries, borg_repos, mount_point, calls, last_listing,
                 merged, pings, exit_code, scan>>

\* run(): for repo in borg_repos: repo.unmount(). unmount() catches and
\* logs every error of borg umount and rmdir, so whatever they do the loop
\* goes on to the next repository.
UnmountRepo ==
  /\ pc = "cleanup"
  /\ idx <= Len(borg_repos)
  /\ LET r == borg_repos[idx] IN
     calls' = [calls EXCEPT ![Borg(r)] = Append(@, "unmount")]
  /\ idx' = idx + 1
  /\ UNCHANGED <<pc, config, limit_per_source, max_entries, webhook_notifier,
                 entries, borg_repos, mount_point, last_listing, merged,
                 pings, report, exc, exit_code, scan>>

\* run(): the success ping, still inside the try block, and the return.
Success ==
  /\ pc = "cleanup"
  /\ idx > Len(borg_repos)
  /\ IF webhook_notifier
     THEN \E outcomes \in PostResults :
            LET p == Ping("success", outcomes) IN
            /\ pings' = Append(pings, PingCall(p))
            /\ IF p.raised
               THEN /\ pc' = "except"
                    /\ exc' = "request_exception"
               ELSE /\ pc' = "returned"
                    /\ exc' = exc
     ELSE /\ pings' = pings
          /\ pc' = "returned"
          /\ exc' = exc
  /\ UNCHANGED <<config, limit_per_source, max_entries, webhook_notifier,
                 entries, borg_repos, idx, mount_point, calls, last_listing,
                 merged, report, exit_code, scan>>

\* Faulty variant of HandleException: the handler pings "fail" but does not
\* re-raise, so run() returns normally.
HandleExceptionNoRaise ==
  /\ pc = "except"
  /\ IF webhook_notifier
     THEN \E outcomes \in PostResults :
            pings' = Append(pings, PingCall(Ping("fail", outcomes)))
     ELSE pings' = pings
  /\ exc' = exc
  /\ pc' = "returned"
  /\ UNCHANGED <<config, limit_per_source, max_entries, webhook_notifier,
                 entries, borg_repos, idx, mount_point, calls, last_listing,
                 merged, report, exit_code, scan>>

\* run(): except Exception: log, ping "fail" if there is a notifier, raise.
HandleException ==
  /\ pc = "except"
  /\ IF webhook_notifier
     THEN \E outcomes \in PostResults :
            LET p == Ping("fail", outcomes) IN
            /\ pings' = Append(pings, PingCall(p))
            /\ exc' = IF p.raised THEN "request_exception" ELSE exc
     ELSE /\ pings' = pings
          /\ exc' = exc
  /\ pc' = "raised"
  /\ UNCHANGED <<config, limit_per_source, max_entries, webhook_notifier,
                 entries, borg_repos, idx, mount_point, calls, last_listing,
                 merged, report, exit_code, scan>>

\* main(): run() returned; the process ends with status 0.
MainReturn ==
  /\ pc = "returned"
  /\ pc' = "exit"
  /\ exit_code' = 0
  /\ UNCHANGED <<config, limit_per_source, max_entries, webhook_notifier,
                 entries, borg_repos, idx, mount_point, calls, last_listing,
                 merged, pings, report, exc, scan>>

\* main(): except Exception: log and sys.exit(1).
MainExcept ==
  /\ pc = "raised"
  /\ pc' = "exit"
  /\ exit_code' = 1
  /\ UNCHANGED <<config, limit_per_source, max_entries, webhook_notifier,
                 entries, borg_repos, idx, mount_point, calls, last_listing,
                 merged, pings, report, exc, scan>>

Next ==
  \/ ConfigMissing
  \/ Construct
  \/ RunStart
  \/ MountRepo
  \/ ListRepo
  \/ ListBucket
  \/ SortTruncate
  \/ SendReport
  \/ UnmountRepo
  \/ Success
  \/ HandleException
  \/ MainReturn
  \/ MainExcept

Spec == Init /\ [][Next]_vars

\* ------------------------------------------- _calculate_directory_size

\* _calculate_directory_size(directory_path) has just been called on a
\* directory holding the files scan.files.
InitScan ==
  /\ pc = "scan"
  /\ config = [webhooks |-> FALSE]
  /\ webhook_notifier = FALSE
  /\ limit_per_source = 0
  /\ max_entries = 0
  /\ entries = <<>>
  /\ borg_repos = <<>>
  /\ idx = 0
  /\ mount_point = [r \in BorgRepositories |-> FALSE]
  /\ calls = [s \in Sources |-> <<>>]
  /\ last_listing = NoListing
  /\ merged = 0
  /\ pings = <<>>
  /\ report = NoReport
  /\ exc = "none"
  /\ exit_code = -1
  /\ \E files \in FileLists :
       scan = [pc |-> "walk", files |-> files, pos |-> 1, total_size |-> 0,
               file_count |-> 0]

\* for file in files: the next file of the walk.
ScanFile ==
  /\ scan.pc = "walk"
  /\ scan.pos <= Len(scan.files)
  /\ scan' = ScanStep(scan, scan.files[scan.pos])
  /\ UNCHANGED <<pc, config, webhook_notifier, limit_per_source, max_entries,
                 entries, borg_repos, idx, mount_point, calls, last_listing,
                 merged, pings, report, exc, exit_code>>

\* The walk is over: return total_size.
ScanReturn ==
  /\ scan.pc = "walk"
  /\ scan.pos > Len(scan.files)
  /\ scan' = [scan EXCEPT !.pc = "returned"]
  /\ UNCHANGED <<pc, config, webhook_notifier, limit_per_source, max_entries,
                 entries, borg_repos, idx, mount_point, calls, last_listing,
                 merged, pings, report, exc, exit_code>>

NextScan ==
  \/ ScanFile
  \/ ScanReturn

SpecScan == InitScan /\ [][NextScan]_vars

\* ------------------------------------------------------------ properties

Count(seq, x) == Cardinality({k \in 1..Len(seq) : seq[k] = x})
Has(seq, x) == \E k \in 1..Len(seq) : seq[k] = x
FromSource(seq, src) == SelectSeq(seq, LAMBDA e : e.source = src)
Statuses == {pings[k].status : k \in 1..Len(pings)}

\* The place of a backend in the order run() goes through them.
SrcRank(src) == IF src.kind = "borg" THEN src.idx ELSE NumRepos + src.idx

Sorted(seq) ==
  \A i, j \in 1..Len(seq) : i < j => seq[i].timestamp >= seq[j].timestamp

\* run() is collecting: entries is the concatenation of what the backends
\* listed so far have returned.
Collecting == pc \in {"borg", "list", "s3", "sort"}
\* The global sort and cut are done.
Cut == pc \in {"send", "cleanup", "except", "returned", "raised", "exit"}

ConfigErrors == {"unreadable", "malformed_yaml", "bad_log_level"}
RunErrors == {"render_error", "smtp_error"}
\* run() has returned normally / has raised.
RunReturned == pc = "returned" \/ (pc = "exit" /\ exit_code = 0)
RunRaised == pc \in {"raised", "exit"} /\ exc \in RunErrors \cup {"request_exception"}

Attached(r) == Has(calls[Borg(r)], "mount_ok")
Failed(src) == Has(calls[src], "mount_fail") \/ Has(calls[src], "list_fail")

\* C1: when run() returns or raises, every repository whose mount()
\* succeeded has had exactly one unmount() call, whatever raised in between.
C1_UnmountOnEveryExit ==
  (RunReturned \/ RunRaised) =>
    \A r \in BorgRepositories :
      Attached(r) => Count(calls[Borg(r)], "unmount") = 1

\* C2 as stated: the entries handed to the report are sorted by timestamp,
\* latest first, and, when there are any, no more than max_total_entries.
C2_SortedAndCapped ==
  report.called =>
    /\ Sorted(report.entries)
    /\ Len(report.entries) = 0 \/ Len(report.entries) <= max_entries

\* C2 as amended: for a max_total_entries that is not negative, the entries
\* handed to the report are sorted by timestamp, latest first, and no more
\* than max_total_entries.
C2_SortedAndCappedNonNegative ==
  (report.called /\ max_entries >= 0) =>
    /\ Sorted(report.entries)
    /\ Len(report.entries) <= max_entries

\* C2 witness: a report of max_total_entries entries with different
\* timestamps, cut from a longer concatenation.
C2_Witness ==
  /\ report.called
  /\ max_entries = 2
  /\ merged > max_entries
  /\ Len(report.entries) = 2
  /\ report.entries[1].timestamp > report.entries[2].timestamp

\* C3: a backend whose mount() failed or whose listing raised has no entry
\* in entries; its failure raises nothing in run(), and once the loops are
\* over every backend has been processed, a backend that did not fail
\* having contributed what its listing returned.
C3_BackendErrorIsolated ==
  /\ \A src \in Sources :
       Failed(src) => FromSource(entries, src) = <<>>
  /\ Collecting => exc = "none"
  /\ pc = "sort" => \A src \in Sources : calls[src] # <<>>
  /\ (Collecting /\ last_listing.source \in Sources /\ ~last_listing.failed) =>
       Len(FromSource(entries, last_listing.source))
         = Len(PySlice(last_listing.raw, limit_per_source))

\* C3 witness: run() has ended normally with one repository that failed to
\* mount, one whose listing raised, and entries from the bucket.
C3_Witness ==
  /\ RunReturned
  /\ Has(calls[Borg(1)], "mount_fail")
  /\ Has(calls[Borg(2)], "list_fail")
  /\ FromSource(entries, S3(1)) # <<>>

\* The entries a backend contributed are the n latest of the items it
\* listed: nothing it left out is later than something it kept.
LatestOf(contrib, raw) ==
  \A k \in 1..Len(raw) :
    (\A i \in 1..Len(contrib) : contrib[i].name # k) =>
      \A i \in 1..Len(contrib) : raw[k] <= contrib[i].timestamp

Contributing == {src \in Sources : FromSource(entries, src) # <<>>}

\* C4 as stated: a backend that passes entries into the merge passes at most
\* entries_per_source of them, its latest ones, and the concatenation has at
\* most entries_per_source entries per contributing backend.
C4_PerSourceLimit ==
  Collecting =>
    /\ \A src \in Sources :
         \/ FromSource(entries, src) = <<>>
         \/ Len(FromSource(entries, src)) <= limit_per_source
    /\ (last_listing.source \in Sources /\ ~last_listing.failed) =>
         LatestOf(FromSource(entries, last_listing.source), last_listing.raw)
    /\ Len(entries) = 0 \/ Len(entries) <= Cardinality(Contributing) * limit_per_source

\* C4 as amended: for an entries_per_source that is not negative, each
\* backend passes at most entries_per_source entries into the merge, they
\* are its entries_per_source latest ones (all of them when it has fewer),
\* and the concatenation has at most entries_per_source entries per
\* contributing backend.
C4_PerSourceLimitNonNegative ==
  (Collecting /\ limit_per_source >= 0) =>
    /\ \A src \in Sources :
         Len(FromSource(entries, src)) <= limit_per_source
    /\ (last_listing.source \in Sources /\ ~last_listing.failed) =>
         LET contrib == FromSource(entries, last_listing.source) IN
         /\ Len(contrib) = Min(limit_per_source, Len(last_listing.raw))
         /\ LatestOf(contrib, last_listing.raw)
         /\ Sorted(contrib)
    /\ Len(entries) <= Cardinality(Contributing) * limit_per_source

\* C4 witness: with entries_per_source = 1 a backend that listed an older
\* item and then a later one has passed on the later one alone, and two
\* backends contribute.
C4_Witness ==
  /\ Collecting
  /\ limit_per_source = 1
  /\ last_listing.source \in Sources
  /\ last_listing.raw = <<1, 2>>
  /\ FromSource(entries, last_listing.source)
       = <<[source |-> last_listing.source, name |-> 2, timestamp |-> 2]>>
  /\ Cardinality(Contributing) = 2

\* C5: after the global sort, entries with the same timestamp stand in the
\* order the sources were gone through (repositories, then buckets, each in
\* configuration order) and, within one source, in its listing order; and
\* when max_total_entries admits the whole concatenation nothing is dropped.
C5_StableMerge ==
  Cut =>
    /\ \A i, j \in 1..Len(entries) :
         (i < j /\ entries[i].timestamp = entries[j].timestamp) =>
           \/ SrcRank(entries[i].source) < SrcRank(entries[j].source)
           \/ /\ entries[i].source = entries[j].source
              /\ entries[i].name < entries[j].name
    /\ (max_entries >= merged) => Len(entries) = merged

\* C5 witness: the sorted output begins with an archive and a bucket object
\* that have the same timestamp, the archive first.
C5_Witness ==
  /\ pc = "send"
  /\ Len(entries) = 2
  /\ entries[1] = [source |-> Borg(2), name |-> 1, timestamp |-> 1]
  /\ entries[2] = [source |-> S3(1), name |-> 1, timestamp |-> 1]

\* C6: every ping call makes one POST to each configured webhook, in order,
\* whichever of them fail; no exception leaves ping, and the process exit
\* status is 0 exactly when nothing else raised.
C6_PingEveryEndpoint ==
  /\ \A k \in 1..Len(pings) : pings[k].urls = Webhooks
  /\ exc # "request_exception"
  /\ (pc = "exit" /\ exc = "none" /\ pings # <<>>) => exit_code = 0

\* C6 witness: a run that ended with status 0 although the POST to the first
\* webhook failed in its success ping, the second webhook being tried too.
C6_Witness ==
  /\ pc = "exit"
  /\ exit_code = 0
  /\ Len(pings) = 2
  /\ pings[2].first_failure = 1
  /\ pings[2].urls = Webhooks

\* C7 as stated: when the process has ended on a run-level error (the
\* configuration could not be loaded, rendering or delivery failed) and the
\* file configures webhooks, "fail" has been pinged and the exit status is 1.
C7_EveryFailureNotified ==
  (pc = "exit" /\ exc \in ConfigErrors \cup RunErrors /\ config.webhooks) =>
    /\ "fail" \in Statuses
    /\ exit_code = 1

\* C7 as amended: an error raised inside run() (rendering, delivery) is
\* followed by one "fail" ping to every webhook when a notifier exists, and
\* the process ends with status 1; an error while loading the configuration
\* ends the process with status 1 too, but without any ping.
C7_RunFailureNotified ==
  /\ (pc \in {"raised", "exit"} /\ exc \in RunErrors /\ webhook_notifier) =>
       /\ pings # <<>>
       /\ pings[Len(pings)].status = "fail"
       /\ pings[Len(pings)].urls = Webhooks
  /\ (pc = "exit" /\ exc \in RunErrors) => exit_code = 1
  /\ exc \in RunErrors => pc \in {"except", "raised", "exit"}
  /\ (pc = "exit" /\ exc \in ConfigErrors) => (exit_code = 1 /\ pings = <<>>)

\* C7 witness: a delivery failure, pinged as "fail", process status 1.
C7_Witness ==
  /\ pc = "exit"
  /\ exc = "smtp_error"
  /\ exit_code = 1
  /\ webhook_notifier
  /\ "fail" \in Statuses

\* The calls made on one repository form a beginning of mount, list,
\* unmount, or are one failed mount.
IsPrefix(a, b) == Len(a) <= Len(b) /\ SubSeq(b, 1, Len(a)) = a

\* C8: on each repository the calls are mount, then list_archives, then
\* unmount, each at most once and in that order; after a failed mount no
\* other call is made on it.
C8_MountLifecycle ==
  \A r \in BorgRepositories :
    \/ calls[Borg(r)] = <<"mount_fail">>
    \/ IsPrefix(calls[Borg(r)], <<"mount_ok", "list_ok", "unmount">>)
    \/ IsPrefix(calls[Borg(r)], <<"mount_ok", "list_fail", "unmount">>)

\* C8 witness: the process has ended, one repository went through mount,
\* list and unmount, the other failed to mount.
C8_Witness ==
  /\ pc = "exit"
  /\ calls[Borg(1)] = <<"mount_ok", "list_ok", "unmount">>
  /\ calls[Borg(2)] = <<"mount_fail">>

RECURSIVE AccessibleSize(_)
AccessibleSize(files) ==
  IF files = <<>> THEN 0
  ELSE AccessibleSize(SubSeq(files, 1, Len(files) - 1))
       + (IF files[Len(files)].access = "ok" THEN files[Len(files)].size ELSE 0)

\* C9: _calculate_directory_size returns the sum of the sizes of the files
\* that can be read, a number that is not negative, whichever files cannot.
C9_ScanSumsAccessible ==
  /\ scan.total_size >= 0
  /\ scan.pc = "returned" =>
       /\ scan.total_size = AccessibleSize(scan.files)
       /\ scan.pos = Len(scan.files) + 1

\* C9 witness: a walk has returned that met a deleted file and, after it, a
\* file that could be read.
C9_Witness ==
  /\ scan.pc = "returned"
  /\ Len(scan.files) >= 2
  /\ scan.files[1].access = "deleted"
  /\ scan.files[1].size > 0
  /\ scan.files[2].access = "ok"
  /\ scan.files[2].size > 0
  /\ scan.total_size > 0

Terminal == {k \in 1..Len(pings) : pings[k].status \in {"success", "fail"}}

\* What C10 says of the pings apart from the delivery of the report.
PingProtocol ==
  webhook_notifier =>
    /\ (pc # "run") => (pings # <<>> /\ pings[1].status = "start")
    /\ \A k \in 2..Len(pings) : pings[k].status # "start"
    /\ (RunReturned \/ RunRaised) => Cardinality(Terminal) = 1
    /\ "success" \in Statuses =>
         \A r \in BorgRepositories : Attached(r) => Has(calls[Borg(r)], "unmount")
    /\ RunReturned <=> "success" \in Statuses
    /\ RunRaised <=> "fail" \in Statuses

\* C10 as stated: with a notifier, "start" is pinged before any backend is
\* touched; a run that ended has pinged exactly one of "success" and "fail";
\* "success" comes after the report was delivered and every attached
\* repository unmounted, and exactly when run() returns; "fail" exactly when
\* run() raises.
C10_PingProtocol ==
  /\ PingProtocol
  /\ (webhook_notifier /\ "success" \in Statuses) => report.delivered

\* C10 as amended: the same, "success" coming after the report was delivered
\* when an email section is configured (without one no report is sent).
C10_PingProtocolEmailOptional ==
  /\ PingProtocol
  /\ (webhook_notifier /\ "success" \in Statuses /\ report.called) =>
       report.delivered

\* C10 witness: a run that delivered its report, unmounted a repository and
\* then pinged "success".
C10_Witness ==
  /\ pc = "exit"
  /\ webhook_notifier
  /\ Statuses = {"start", "success"}
  /\ report.delivered
  /\ Has(calls[Borg(1)], "unmount")

====
